---------------------------- MODULE Spec2Model ----------------------------
(***************************************************************************)
(* A model of telegram-reminder-bot: the reminder queue kept in the        *)
(* database (database.go), the dispatch loop that delivers due reminders   *)
(* (bot.go: monitorQueue / processQueue), and the handlers that create and *)
(* cancel reminders (bot.go: handleMessage / handleCallbackQuery).         *)
(*                                                                         *)
(* Time is counted in units of 1/UnitsPerMinute of a minute since local    *)
(* midnight of day 0 in the configured location, which is taken to have a  *)
(* fixed offset.  Database calls are taken to succeed (no I/O error); the  *)
(* Telegram calls succeed or fail freely.  Columns that no code reads      *)
(* (CreatedAt, UpdatedAt, SavedOn, the prompt and log tables) are left out.*)
(***************************************************************************)
EXTENDS Integers, Sequences, FiniteSets, Bags, TLC

\* ---------------------------------------------------------------- bounds
\* the clock runs over ClockStart .. ClockStart + MaxTime
MaxTime == 3
\* rows the queue_items table may hold
MaxItems == 2
\* delivery goroutines that may be in flight at once
MaxTasks == 2
\* the largest configured max_num_tries
MaxTries == 2
\* time units in a minute
UnitsPerMinute == 2
\* items parse() may return when the resolver is run by itself
MaxParsed == 2

\* ------------------------------------------------------------- constants
\* database.go: DefaultMaxNumTries
DefaultMaxNumTries == 10
\* the Go zero value of time.Time (QueueItem.EnqueuedOn is never assigned)
ZeroTime == 0
\* a nil *time.Time / a NULL column; a set one is <<t>>
Nil == << >>
\* a set gorm.Model.DeletedAt: no query reads more of it than "is null"
Deleted == <<ZeroTime>>

Minute == UnitsPerMinute
Hour == 60 * Minute
Noon == 12 * Hour
\* the clock starts one unit before 11:59, so that it crosses noon
ClockStart == Noon - Minute - 1
Clock == ClockStart .. (ClockStart + MaxTime)

VARIABLES
    now,                \* time.Now()
    conf,               \* the loaded config
    queueItems,         \* table queue_items; the row with ID i is queueItems[i]
    temporaryMessages,  \* table temporary_messages, in row order
    keyboards,          \* callback data of the inline buttons shown so far
    tasks,              \* the bag of delivery goroutines in flight
    sink,               \* per queue item: what the Telegram API was asked and answered
    ticks,              \* per queue ID: the sequential ticks that ran while it was due
    last                \* the last call made on the store or the resolver by itself

vars == <<now, conf, queueItems, temporaryMessages, keyboards, tasks, sink, ticks,
          last>>

\* ------------------------------------------------------------ time format
\* time.Time.Hour() / Minute() in _location
HourOf(t) == (t \div Hour) % 24
MinuteOf(t) == (t \div Minute) % 60
\* t.In(_location).Format(datetimeFormat): "yyyy.mm.dd hh:MM", here the number
\* of the minute; the seconds are dropped
datetimeToStr(t) == t \div Minute
\* time.ParseInLocation(datetimeFormat, s, _location): second 0 of that minute
ParseInLocation(s) == s * Minute

\* ------------------------------------------------------------------ store
\* no call made yet
NoCall == [op |-> "none"]
\* what the functions on queue_items return for the rows their statement
\* touched: (res.RowsAffected > 0, res.Error); a statement that touches no row
\* is no error to gorm
Returned(rows) == [result |-> rows # {}, err |-> Nil]

\* mutant of Rows: soft-deleted rows are not left out
RowsUnscoped(tbl, matching) == matching

\* a WHERE clause's rows: the IDs of the rows of tbl that are not soft-deleted
\* (gorm.Model.DeletedAt) among those, matching, that satisfy the clause
Rows(tbl, matching) == {i \in matching : tbl[i].DeletedAt = Nil}

\* all the orders in which the rows ids may come back when sorted by key[_]
\* (ascending); rows with equal keys come back in either order
OrderBy(ids, key) ==
    {s \in [1 .. Cardinality(ids) -> ids] :
        /\ \A a, b \in DOMAIN s : a # b => s[a] # s[b]
        /\ \A a, b \in DOMAIN s : a < b => key[s[a]] <= key[s[b]]}

\* mutant of Enqueue: a reminder equal to a stored one is not stored again
EnqueueUnique(tbl, chatID, messageID, message, fireOn) ==
    IF \E i \in DOMAIN tbl :
          /\ tbl[i].ChatID = chatID /\ tbl[i].MessageID = messageID
          /\ tbl[i].Message = message /\ tbl[i].FireOn = fireOn
    THEN tbl
    ELSE Append(tbl, [ID          |-> Len(tbl) + 1,
                      ChatID      |-> chatID,
                      MessageID   |-> messageID,
                      Message     |-> message,
                      EnqueuedOn  |-> ZeroTime,
                      FireOn      |-> fireOn,
                      DeliveredOn |-> Nil,
                      NumTries    |-> 0,
                      DeletedAt   |-> Nil])

Enqueue(tbl, chatID, messageID, message, fireOn) ==
    Append(tbl, [ID          |-> Len(tbl) + 1,
                 ChatID      |-> chatID,
                 MessageID   |-> messageID,
                 Message     |-> message,
                 EnqueuedOn  |-> ZeroTime,
                 FireOn      |-> fireOn,
                 DeliveredOn |-> Nil,
                 NumTries    |-> 0,
                 DeletedAt   |-> Nil])

\* mutants of DeliverableWhere: "num_tries <= ?", "fire_on >= ?", and the
\* condition on delivered_on forgotten
DeliverableWhereLeq(q, maxNumTries) ==
    q.DeliveredOn = Nil /\ q.NumTries <= maxNumTries /\ q.FireOn <= now
DeliverableWhereUndue(q, maxNumTries) ==
    q.DeliveredOn = Nil /\ q.NumTries < maxNumTries /\ q.FireOn >= now
DeliverableWhereAnyDelivery(q, maxNumTries) ==
    q.NumTries < maxNumTries /\ q.FireOn <= now

\* the WHERE clause of DeliverableQueueItems
DeliverableWhere(q, maxNumTries) ==
    q.DeliveredOn = Nil /\ q.NumTries < maxNumTries /\ q.FireOn <= now

\* mutant of DeliverableQueueItems: the default is used whatever is asked for
DeliverableQueueItemsDefault(tbl, maxNumTries) ==
    LET where == {i \in DOMAIN tbl : DeliverableWhere(tbl[i], DefaultMaxNumTries)}
        desc == [i \in DOMAIN tbl |-> 0 - tbl[i].EnqueuedOn]
    IN  OrderBy(Rows(tbl, where), desc)

\* mutant of DeliverableQueueItems: soft-deleted rows are returned too
DeliverableQueueItemsUnscoped(tbl, maxNumTries) ==
    LET m == IF maxNumTries <= 0 THEN DefaultMaxNumTries ELSE maxNumTries
        where == {i \in DOMAIN tbl : DeliverableWhere(tbl[i], m)}
        desc == [i \in DOMAIN tbl |-> 0 - tbl[i].EnqueuedOn]
    IN  OrderBy(where, desc)

\* the possible results of DeliverableQueueItems, each a sequence of IDs
DeliverableQueueItems(tbl, maxNumTries) ==
    LET m == IF maxNumTries <= 0 THEN DefaultMaxNumTries ELSE maxNumTries
        where == {i \in DOMAIN tbl : DeliverableWhere(tbl[i], m)}
        desc == [i \in DOMAIN tbl |-> 0 - tbl[i].EnqueuedOn]
    IN  OrderBy(Rows(tbl, where), desc)

\* mutant of UndeliveredWhere: the chat is not looked at
UndeliveredWhereAnyChat(q, chatID) == q.DeliveredOn = Nil

\* the WHERE clause of UndeliveredQueueItems
UndeliveredWhere(q, chatID) == q.ChatID = chatID /\ q.DeliveredOn = Nil

\* the possible results of UndeliveredQueueItems, each a sequence of IDs
UndeliveredQueueItems(tbl, chatID) ==
    LET where == {i \in DOMAIN tbl : UndeliveredWhere(tbl[i], chatID)}
        asc == [i \in DOMAIN tbl |-> tbl[i].FireOn]
    IN  OrderBy(Rows(tbl, where), asc)

\* mutant of QueueItemRows: the chat is not looked at ("id = ?")
QueueItemRowsByID(tbl, chatID, queueID) ==
    Rows(tbl, {i \in DOMAIN tbl : tbl[i].ID = queueID})

\* the rows "id = ? and chat_id = ?" selects
QueueItemRows(tbl, chatID, queueID) ==
    Rows(tbl, {i \in DOMAIN tbl : tbl[i].ID = queueID /\ tbl[i].ChatID = chatID})

\* GetQueueItem: the rows found; First() fails (ErrRecordNotFound) on none
GetQueueItem(tbl, chatID, queueID) == QueueItemRows(tbl, chatID, queueID)

\* mutant of DeleteQueueItem: the row is marked delivered as it is deleted
DeleteQueueItemDelivered(tbl, chatID, queueID) ==
    [i \in DOMAIN tbl |->
        IF i \in QueueItemRows(tbl, chatID, queueID)
        THEN [tbl[i] EXCEPT !.DeletedAt = Deleted, !.DeliveredOn = <<now>>]
        ELSE tbl[i]]

DeleteQueueItem(tbl, chatID, queueID) ==
    [i \in DOMAIN tbl |->
        IF i \in QueueItemRows(tbl, chatID, queueID)
        THEN [tbl[i] EXCEPT !.DeletedAt = Deleted]
        ELSE tbl[i]]

\* mutant of IncreaseNumTries: only rows not yet delivered are counted
IncreaseNumTriesUndelivered(tbl, chatID, queueID) ==
    [i \in DOMAIN tbl |->
        IF i \in QueueItemRows(tbl, chatID, queueID) /\ tbl[i].DeliveredOn = Nil
        THEN [tbl[i] EXCEPT !.NumTries = @ + 1]
        ELSE tbl[i]]

\* mutant of IncreaseNumTries: the count is written from a value read before the
\* other goroutines' updates (num_tries as the scan saw it, plus one)
IncreaseNumTriesStale(tbl, chatID, queueID) ==
    [i \in DOMAIN tbl |->
        IF i \in QueueItemRows(tbl, chatID, queueID)
        THEN [tbl[i] EXCEPT !.NumTries = IF @ = 0 THEN 1 ELSE @]
        ELSE tbl[i]]

IncreaseNumTries(tbl, chatID, queueID) ==
    [i \in DOMAIN tbl |->
        IF i \in QueueItemRows(tbl, chatID, queueID)
        THEN [tbl[i] EXCEPT !.NumTries = @ + 1]
        ELSE tbl[i]]

\* mutant of MarkQueueItemAsDelivered: the count of tries is reset
MarkQueueItemAsDeliveredResetting(tbl, chatID, queueID) ==
    [i \in DOMAIN tbl |->
        IF i \in QueueItemRows(tbl, chatID, queueID)
        THEN [tbl[i] EXCEPT !.DeliveredOn = <<now>>, !.NumTries = 0]
        ELSE tbl[i]]

\* mutant of MarkQueueItemAsDelivered: no row is updated
MarkQueueItemAsDeliveredNothing(tbl, chatID, queueID) == tbl

MarkQueueItemAsDelivered(tbl, chatID, queueID) ==
    [i \in DOMAIN tbl |->
        IF i \in QueueItemRows(tbl, chatID, queueID)
        THEN [tbl[i] EXCEPT !.DeliveredOn = <<now>>]
        ELSE tbl[i]]

\* what MarkQueueItemAsDelivered returns
MarkQueueItemAsDeliveredReturns(tbl, chatID, queueID) ==
    Returned(QueueItemRows(tbl, chatID, queueID))

\* the rows "chat_id = ? and message_id = ?" selects in temporary_messages
TemporaryMessageRows(tbl, chatID, messageID) ==
    Rows(tbl, {i \in DOMAIN tbl : tbl[i].ChatID = chatID /\ tbl[i].MessageID = messageID})

SaveTemporaryMessage(tbl, chatID, messageID, message) ==
    Append(tbl, [ChatID    |-> chatID,
                 MessageID |-> messageID,
                 Message   |-> message,
                 DeletedAt |-> Nil])

\* LoadTemporaryMessage: First() orders by primary key, so the oldest row wins
LoadTemporaryMessage(tbl, chatID, messageID) ==
    LET rows == TemporaryMessageRows(tbl, chatID, messageID)
    IN  IF rows = {} THEN Nil
        ELSE <<tbl[CHOOSE i \in rows : \A j \in rows : i <= j]>>

DeleteTemporaryMessage(tbl, chatID, messageID) ==
    [i \in DOMAIN tbl |->
        IF i \in TemporaryMessageRows(tbl, chatID, messageID)
        THEN [tbl[i] EXCEPT !.DeletedAt = Deleted]
        ELSE tbl[i]]


\* --------------------------------------------------------------- resolver
\* mutants of Generate: the test "hour < 12" comes first; the minute is not
\* looked at in the test for midnight
GenerateAmFirst(cnf, parsed) ==
    LET RECURSIVE Gen(_)
        Gen(k) ==
            IF k > Len(parsed) THEN << >>
            ELSE LET p == parsed[k]
                     extra ==
                        IF HourOf(p.When) < 12
                        THEN <<[Message   |-> p.Message,
                                When      |-> p.When + Hour * 12,
                                Generated |-> TRUE]>>
                        ELSE IF HourOf(p.When) = 0 /\ MinuteOf(p.When) = 0
                        THEN <<[Message   |-> p.Message,
                                When      |-> p.When + Hour * cnf.DefaultHour,
                                Generated |-> TRUE]>>
                        ELSE << >>
                 IN  <<p>> \o extra \o Gen(k + 1)
    IN  Gen(1)
GenerateHourOnly(cnf, parsed) ==
    LET RECURSIVE Gen(_)
        Gen(k) ==
            IF k > Len(parsed) THEN << >>
            ELSE LET p == parsed[k]
                     extra ==
                        IF HourOf(p.When) = 0
                        THEN <<[Message   |-> p.Message,
                                When      |-> p.When + Hour * cnf.DefaultHour,
                                Generated |-> TRUE]>>
                        ELSE IF HourOf(p.When) < 12
                        THEN <<[Message   |-> p.Message,
                                When      |-> p.When + Hour * 12,
                                Generated |-> TRUE]>>
                        ELSE << >>
                 IN  <<p>> \o extra \o Gen(k + 1)
    IN  Gen(1)

\* mutant of Generate: nothing is generated for an item before noon
GenerateMidnightOnly(cnf, parsed) ==
    LET RECURSIVE Gen(_)
        Gen(k) ==
            IF k > Len(parsed) THEN << >>
            ELSE LET p == parsed[k]
                     extra ==
                        IF HourOf(p.When) = 0 /\ MinuteOf(p.When) = 0
                        THEN <<[Message   |-> p.Message,
                                When      |-> p.When + Hour * cnf.DefaultHour,
                                Generated |-> TRUE]>>
                        ELSE << >>
                 IN  <<p>> \o extra \o Gen(k + 1)
    IN  Gen(1)

\* the candidates filterParsed generates: each parsed item as it is, followed
\* by the one generated from it
Generate(cnf, parsed) ==
    LET RECURSIVE Gen(_)
        Gen(k) ==
            IF k > Len(parsed) THEN << >>
            ELSE LET p == parsed[k]
                     extra ==
                        IF HourOf(p.When) = 0 /\ MinuteOf(p.When) = 0
                        THEN <<[Message   |-> p.Message,
                                When      |-> p.When + Hour * cnf.DefaultHour,
                                Generated |-> TRUE]>>
                        ELSE IF HourOf(p.When) < 12
                        THEN <<[Message   |-> p.Message,
                                When      |-> p.When + Hour * 12,
                                Generated |-> TRUE]>>
                        ELSE << >>
                 IN  <<p>> \o extra \o Gen(k + 1)
    IN  Gen(1)

\* the second loop of filterParsed: drop the candidates whose formatted time was
\* seen before, and of the others the ones that are not after now
\* mutants of RemovePassedOrDuplicated: a candidate at now is kept; nothing is
\* taken for a duplicate
RemovePassed(generated) ==
    LET RECURSIVE Keep(_)
        Keep(k) ==
            IF k > Len(generated) THEN << >>
            ELSE (IF generated[k].When > now THEN <<generated[k]>> ELSE << >>)
                 \o Keep(k + 1)
    IN  Keep(1)
RemoveBeforeNowOrDuplicated(generated) ==
    LET RECURSIVE Keep(_, _)
        Keep(k, duplicated) ==
            IF k > Len(generated) THEN << >>
            ELSE LET p == generated[k]
                     dup == datetimeToStr(p.When)
                 IN  IF dup \in duplicated THEN Keep(k + 1, duplicated)
                     ELSE (IF p.When >= now THEN <<p>> ELSE << >>)
                          \o Keep(k + 1, duplicated \cup {dup})
    IN  Keep(1, {})

\* mutant of RemovePassedOrDuplicated: of the candidates with one formatted time
\* the last one is kept
RemovePassedOrDuplicatedLast(generated) ==
    LET RECURSIVE Keep(_, _)
        Keep(k, duplicated) ==
            IF k < 1 THEN << >>
            ELSE LET p == generated[k]
                     dup == datetimeToStr(p.When)
                 IN  IF dup \in duplicated THEN Keep(k - 1, duplicated)
                     ELSE Keep(k - 1, duplicated \cup {dup})
                          \o (IF p.When > now THEN <<p>> ELSE << >>)
    IN  Keep(Len(generated), {})

RemovePassedOrDuplicated(generated) ==
    LET RECURSIVE Keep(_, _)
        Keep(k, duplicated) ==
            IF k > Len(generated) THEN << >>
            ELSE LET p == generated[k]
                     dup == datetimeToStr(p.When)
                 IN  IF dup \in duplicated THEN Keep(k + 1, duplicated)
                     ELSE (IF p.When > now THEN <<p>> ELSE << >>)
                          \o Keep(k + 1, duplicated \cup {dup})
    IN  Keep(1, {})

\* mutant of filterParsed: the generated list is returned as it is
filterParsedAll(cnf, parsed) == Generate(cnf, parsed)

filterParsed(cnf, parsed) == RemovePassedOrDuplicated(Generate(cnf, parsed))

\* ------------------------------------------------------- inline keyboards
\* callback data of a button, with the chat its message was sent to
LoadButton(chatID, messageID, when) ==
    [chat |-> chatID, cmd |-> "/load", chatID |-> chatID,
     messageID |-> messageID, param |-> datetimeToStr(when)]
\* "/cancel <queue id>" in chat chatID; "/cancel" alone has queueID 0
CancelButton(chatID, queueID) ==
    [chat |-> chatID, cmd |-> "/cancel", chatID |-> 0, messageID |-> 0,
     param |-> queueID]

datetimeButtonsForCallbackQuery(items, chatID, messageID) ==
    {LoadButton(chatID, messageID, items[k].When) : k \in DOMAIN items}
        \cup {CancelButton(chatID, 0)}

\* --------------------------------------------------------------- handlers
\* the record kept beside a new queue item: past, its FireOn was before now
\* when it was enqueued; sends / oks, the SendMessage calls made for it and the
\* ones answered Ok; done, the goroutines that ran to their end; marked,
\* MarkQueueItemAsDelivered changed its row
NewSink(fireOn) ==
    [past |-> fireOn < now, sends |-> 0, oks |-> 0, done |-> 0, marked |-> FALSE]

\* mutant of HandleMessage: the first candidate is enqueued however many there are
HandleMessageFirst(chatID, messageID, parsed, failed, sent) ==
    LET filtered == filterParsed(conf, parsed)
    IN  /\ IF failed \/ Len(filtered) = 0 THEN
              UNCHANGED <<queueItems, sink, temporaryMessages, keyboards>>
           ELSE
              /\ Len(queueItems) < MaxItems
              /\ queueItems' = Enqueue(queueItems, chatID, messageID,
                                       filtered[1].Message, filtered[1].When)
              /\ sink' = Append(sink, NewSink(filtered[1].When))
              /\ UNCHANGED <<temporaryMessages, keyboards>>
        /\ UNCHANGED <<now, conf, tasks, ticks, last>>

\* handleMessage for a text message: parsed and failed are what parse() returned
\* (failed: some error was returned); sent: the reply reached the chat
HandleMessage(chatID, messageID, parsed, failed, sent) ==
    LET filtered == filterParsed(conf, parsed)
    IN  /\ IF failed THEN
              UNCHANGED <<queueItems, sink, temporaryMessages, keyboards>>
           ELSE IF Len(filtered) = 1 THEN
              /\ Len(queueItems) < MaxItems
              /\ queueItems' = Enqueue(queueItems, chatID, messageID,
                                       filtered[1].Message, filtered[1].When)
              /\ sink' = Append(sink, NewSink(filtered[1].When))
              /\ UNCHANGED <<temporaryMessages, keyboards>>
           ELSE IF Len(filtered) > 0 THEN
              /\ Len(temporaryMessages) < MaxItems
              /\ temporaryMessages' = SaveTemporaryMessage(temporaryMessages,
                                        chatID, messageID, filtered[1].Message)
              /\ keyboards' = IF sent
                              THEN keyboards \cup datetimeButtonsForCallbackQuery(
                                                     filtered, chatID, messageID)
                              ELSE keyboards
              /\ UNCHANGED <<queueItems, sink>>
           ELSE
              UNCHANGED <<queueItems, sink, temporaryMessages, keyboards>>
        /\ UNCHANGED <<now, conf, tasks, ticks, last>>

\* mutant of CallbackCancel: the chat's temporary messages are deleted
CallbackCancelDiscards(b) ==
    /\ b.cmd = "/cancel" /\ b.param = 0
    /\ temporaryMessages' =
          [k \in DOMAIN temporaryMessages |->
              IF temporaryMessages[k].ChatID = b.chat
              THEN [temporaryMessages[k] EXCEPT !.DeletedAt = Deleted]
              ELSE temporaryMessages[k]]
    /\ UNCHANGED <<queueItems, sink>>

\* handleCallbackQuery, data "/cancel": nothing is touched
CallbackCancel(b) ==
    /\ b.cmd = "/cancel" /\ b.param = 0
    /\ UNCHANGED <<queueItems, temporaryMessages, sink>>

\* mutant of CallbackCancelItem: the reminder is looked up and deleted by its
\* id alone
CallbackCancelItemAnyChat(b) ==
    /\ b.cmd = "/cancel" /\ b.param # 0
    /\ queueItems' = [i \in DOMAIN queueItems |->
                         IF queueItems[i].ID = b.param
                         THEN [queueItems[i] EXCEPT !.DeletedAt = Deleted]
                         ELSE queueItems[i]]
    /\ UNCHANGED <<temporaryMessages, sink>>

\* handleCallbackQuery, data "/cancel <queue id>"
CallbackCancelItem(b) ==
    /\ b.cmd = "/cancel" /\ b.param # 0
    /\ queueItems' = IF GetQueueItem(queueItems, b.chat, b.param) # {}
                     THEN DeleteQueueItem(queueItems, b.chat, b.param)
                     ELSE queueItems
    /\ UNCHANGED <<temporaryMessages, sink>>

\* mutant of CallbackLoad: the temporary message is not deleted
CallbackLoadKeeps(b) ==
    /\ b.cmd = "/load"
    /\ LET saved == LoadTemporaryMessage(temporaryMessages, b.chatID, b.messageID)
       IN  IF saved = Nil THEN
              UNCHANGED <<queueItems, temporaryMessages, sink>>
           ELSE
              /\ Len(queueItems) < MaxItems
              /\ queueItems' = Enqueue(queueItems, b.chatID, b.messageID,
                                       saved[1].Message, ParseInLocation(b.param))
              /\ sink' = Append(sink, NewSink(ParseInLocation(b.param)))
              /\ UNCHANGED temporaryMessages

\* handleCallbackQuery, data "/load <chat id>/<message id>/<datetime>"
CallbackLoad(b) ==
    /\ b.cmd = "/load"
    /\ LET saved == LoadTemporaryMessage(temporaryMessages, b.chatID, b.messageID)
       IN  IF saved = Nil THEN
              UNCHANGED <<queueItems, temporaryMessages, sink>>
           ELSE
              /\ Len(queueItems) < MaxItems
              /\ queueItems' = Enqueue(queueItems, b.chatID, b.messageID,
                                       saved[1].Message, ParseInLocation(b.param))
              /\ sink' = Append(sink, NewSink(ParseInLocation(b.param)))
              /\ temporaryMessages' = DeleteTemporaryMessage(temporaryMessages,
                                                             b.chatID, b.messageID)

\* handleCallbackQuery for a button b the user pressed
HandleCallbackQuery(b) ==
    /\ \/ CallbackCancel(b)
       \/ CallbackCancelItem(b)
       \/ CallbackLoad(b)
    /\ UNCHANGED <<now, conf, keyboards, tasks, ticks, last>>

\* --------------------------------------------------------------- dispatch
\* a delivery goroutine: its copy q of the queue item (the fields it uses) and
\* the statement it is at
Task(pc, q) == [pc |-> pc, ID |-> q.ID, ChatID |-> q.ChatID]

\* mutant of Spawn: the loop launches no goroutine
SpawnNone(queue) == tasks

\* go func(q QueueItem) for each q of queue
Spawn(queue) ==
    LET RECURSIVE Go(_)
        Go(k) == IF k > Len(queue) THEN EmptyBag
                 ELSE SetToBag({Task("send", queueItems[queue[k]])}) (+) Go(k + 1)
    IN  tasks (+) Go(1)

\* processQueue: one dispatch tick
ProcessQueue ==
    /\ \E queue \in DeliverableQueueItems(queueItems, conf.MaxNumTries) :
          /\ BagCardinality(tasks) + Len(queue) <= MaxTasks
          /\ tasks' = Spawn(queue)
    /\ UNCHANGED <<now, conf, queueItems, temporaryMessages, keyboards, sink, last>>

\* goroutine t moves on to statement pc
Goto(t, pc) == (tasks (-) SetToBag({t})) (+) SetToBag({Task(pc, t)})

\* mutant of SendMessage: the reminder is marked whatever the answer was
SendMessageMarking(t, ok) ==
    /\ BagIn(t, tasks) /\ t.pc = "send"
    /\ tasks' = Goto(t, "mark")
    /\ sink' = [sink EXCEPT ![t.ID].sends = @ + 1,
                            ![t.ID].oks = IF ok THEN @ + 1 ELSE @]
    /\ UNCHANGED <<now, conf, queueItems, temporaryMessages, keyboards, ticks, last>>

\* a goroutine's client.SendMessage, answered sent.Ok = ok
SendMessage(t, ok) ==
    /\ BagIn(t, tasks) /\ t.pc = "send"
    /\ tasks' = Goto(t, IF ok THEN "mark" ELSE "incr")
    /\ sink' = [sink EXCEPT ![t.ID].sends = @ + 1,
                            ![t.ID].oks = IF ok THEN @ + 1 ELSE @]
    /\ UNCHANGED <<now, conf, queueItems, temporaryMessages, keyboards, ticks, last>>

\* after sent.Ok: db.MarkQueueItemAsDelivered(q.ChatID, q.ID)
MarkDelivered(t) ==
    /\ BagIn(t, tasks) /\ t.pc = "mark"
    /\ queueItems' = MarkQueueItemAsDelivered(queueItems, t.ChatID, t.ID)
    /\ sink' = [sink EXCEPT ![t.ID].marked =
                   @ \/ QueueItemRows(queueItems, t.ChatID, t.ID) # {}]
    /\ tasks' = Goto(t, "incr")
    /\ UNCHANGED <<now, conf, temporaryMessages, keyboards, ticks, last>>

\* the goroutine's last call: db.IncreaseNumTries(q.ChatID, q.ID)
IncreaseTries(t) ==
    /\ BagIn(t, tasks) /\ t.pc = "incr"
    /\ queueItems' = IncreaseNumTries(queueItems, t.ChatID, t.ID)
    /\ sink' = [sink EXCEPT ![t.ID].done = @ + 1]
    /\ tasks' = tasks (-) SetToBag({t})
    /\ UNCHANGED <<now, conf, temporaryMessages, keyboards, ticks, last>>

\* time passes
Elapse ==
    /\ now < ClockStart + MaxTime
    /\ now' = now + 1
    /\ UNCHANGED <<conf, queueItems, temporaryMessages, keyboards, tasks, sink, ticks,
                   last>>

\* ------------------------------------------------------------- the system
Chats == {1}
MessageIDs == {1}
\* what parse() may return: nothing, or one item at a minute the clock reaches
ParsedInputs ==
    {<< >>} \cup {<<[Message |-> "m", When |-> ParseInLocation(datetimeToStr(t)),
                     Generated |-> FALSE]>> : t \in Clock \ {ClockStart}}

Init ==
    /\ now = ClockStart
    /\ conf \in {[MaxNumTries |-> n, DefaultHour |-> 8] : n \in 1 .. MaxTries}
    /\ queueItems = << >>
    /\ temporaryMessages = << >>
    /\ keyboards = {}
    /\ tasks = EmptyBag
    /\ sink = << >>
    /\ ticks = [i \in 1 .. MaxItems |-> 0]
    /\ last = NoCall

Message ==
    \E c \in Chats, m \in MessageIDs, p \in ParsedInputs, failed, sent \in BOOLEAN :
        HandleMessage(c, m, p, failed, sent)
\* the buttons a user may press: the load buttons shown so far, and the buttons
\* of a /cancel keyboard, which lists the chat's undelivered reminders whenever
\* the user asks for it
Pressable ==
    {b \in keyboards : b.cmd = "/load"}
        \cup {CancelButton(c, i) : c \in Chats, i \in 0 .. Len(queueItems)}
Callback == \E b \in Pressable : HandleCallbackQuery(b)
Tick == ProcessQueue /\ UNCHANGED ticks
Send == \E t \in BagToSet(tasks), ok \in BOOLEAN : SendMessage(t, ok)
Mark == \E t \in BagToSet(tasks) : MarkDelivered(t)
Incr == \E t \in BagToSet(tasks) : IncreaseTries(t)

Next == Message \/ Callback \/ Tick \/ Send \/ Mark \/ Incr \/ Elapse

Spec == Init /\ [][Next]_vars

\* ------------------------------------------------ the store by itself
\* the functions of database.go on queue_items called one at a time, with any
\* chat and queue IDs; last keeps the call and what it returned
StoreChats == {1, 2}
StoreIDs == 1 .. MaxItems
StoreFireOns == {ParseInLocation(datetimeToStr(ClockStart + 1)),
                 ParseInLocation(datetimeToStr(ClockStart + 1) + 1)}
Call(op, chatID, queueID, ret) ==
    [op |-> op, chatID |-> chatID, queueID |-> queueID, ret |-> ret]

StoreEnqueue ==
    \E c \in StoreChats, m \in MessageIDs, f \in StoreFireOns :
        /\ Len(queueItems) < MaxItems
        /\ queueItems' = Enqueue(queueItems, c, m, "m", f)
        /\ last' = Call("Enqueue", c, Len(queueItems) + 1, Returned({Len(queueItems) + 1}))
        /\ UNCHANGED <<now, conf, temporaryMessages, keyboards, tasks, sink, ticks>>

StoreDelete ==
    \E c \in StoreChats, i \in StoreIDs :
        /\ queueItems' = DeleteQueueItem(queueItems, c, i)
        /\ last' = Call("DeleteQueueItem", c, i, Returned(QueueItemRows(queueItems, c, i)))
        /\ UNCHANGED <<now, conf, temporaryMessages, keyboards, tasks, sink, ticks>>

StoreMarkCall(c, i) ==
    /\ queueItems' = MarkQueueItemAsDelivered(queueItems, c, i)
    /\ last' = Call("MarkQueueItemAsDelivered", c, i,
                    MarkQueueItemAsDeliveredReturns(queueItems, c, i))
    /\ UNCHANGED <<now, conf, temporaryMessages, keyboards, tasks, sink, ticks>>

StoreMark == \E c \in StoreChats, i \in StoreIDs : StoreMarkCall(c, i)

StoreIncrease ==
    \E c \in StoreChats, i \in StoreIDs :
        /\ \A r \in QueueItemRows(queueItems, c, i) : queueItems[r].NumTries < MaxTries
        /\ queueItems' = IncreaseNumTries(queueItems, c, i)
        /\ last' = Call("IncreaseNumTries", c, i, Returned(QueueItemRows(queueItems, c, i)))
        /\ UNCHANGED <<now, conf, temporaryMessages, keyboards, tasks, sink, ticks>>

NextStore == StoreEnqueue \/ StoreDelete \/ StoreMark \/ StoreIncrease \/ Elapse

InitStore == Init /\ conf.MaxNumTries = MaxTries

SpecStore == InitStore /\ [][NextStore]_vars

\* ------------------------------------------- the bot with its commands
\* listRemindersCommandHandler: the chat's undelivered reminders are read and
\* sent as text
ListRemindersCommand(chatID) ==
    /\ \E reminders \in UndeliveredQueueItems(queueItems, chatID) :
          Len(reminders) >= 0
    /\ UNCHANGED vars

\* cancelCommandHandler: the chat's undelivered reminders are read and sent as
\* buttons "/cancel <queue id>", with a plain cancel button below them
CancelCommand(chatID, sent) ==
    /\ \E reminders \in UndeliveredQueueItems(queueItems, chatID) :
          keyboards' =
              IF sent /\ Len(reminders) > 0
              THEN keyboards
                      \cup {CancelButton(chatID, queueItems[reminders[k]].ID) :
                               k \in DOMAIN reminders}
                      \cup {CancelButton(chatID, 0)}
              ELSE keyboards
    /\ UNCHANGED <<now, conf, queueItems, temporaryMessages, tasks, sink, ticks, last>>

ListReminders == \E c \in Chats : ListRemindersCommand(c)
CancelMenu == \E c \in Chats, sent \in BOOLEAN : CancelCommand(c, sent)

NextCommands == Next \/ ListReminders \/ CancelMenu

InitCommands == Init /\ conf.MaxNumTries = MaxTries

SpecCommands == InitCommands /\ [][NextCommands]_vars

\* ------------------------------------------ cancel requests of two chats
\* reminders enqueued for two chats and marked delivered, and callbacks
\* "/cancel <queue id>" received from either chat with any id: a stored one, of
\* that chat or of the other, or one never given out
CancelIDs == 1 .. (MaxItems + 1)
CancelPress ==
    \E c \in StoreChats, i \in CancelIDs : HandleCallbackQuery(CancelButton(c, i))

NextCancel == StoreEnqueue \/ StoreMark \/ CancelPress \/ Elapse

SpecCancel == InitStore /\ [][NextCancel]_vars

\* ------------------------------------ the temporary messages by themselves
\* the functions of database.go on temporary_messages called one at a time;
\* last keeps the call and, of LoadTemporaryMessage, what it returned
PendingTexts == {"a", "b"}
PendingCall(op, chatID, messageID, ret) ==
    [op |-> op, chatID |-> chatID, messageID |-> messageID, ret |-> ret]

PendingSave ==
    \E c \in StoreChats, m \in MessageIDs, text \in PendingTexts :
        /\ Len(temporaryMessages) < MaxItems + 1
        /\ temporaryMessages' = SaveTemporaryMessage(temporaryMessages, c, m, text)
        /\ last' = PendingCall("SaveTemporaryMessage", c, m, Nil)
        /\ UNCHANGED <<now, conf, queueItems, keyboards, tasks, sink, ticks>>

PendingLoad ==
    \E c \in StoreChats, m \in MessageIDs :
        /\ last' = PendingCall("LoadTemporaryMessage", c, m,
                               LoadTemporaryMessage(temporaryMessages, c, m))
        /\ UNCHANGED <<now, conf, queueItems, temporaryMessages, keyboards, tasks,
                       sink, ticks>>

PendingDelete ==
    \E c \in StoreChats, m \in MessageIDs :
        /\ temporaryMessages' = DeleteTemporaryMessage(temporaryMessages, c, m)
        /\ last' = PendingCall("DeleteTemporaryMessage", c, m, Nil)
        /\ UNCHANGED <<now, conf, queueItems, keyboards, tasks, sink, ticks>>

NextPending == PendingSave \/ PendingLoad \/ PendingDelete

SpecPending == InitStore /\ [][NextPending]_vars

\* --------------------------------------------- the resolver by itself
\* filterParsed called with any of a range of parse results, at any time of
\* the clock and under every default_hour loadConfig lets through; last keeps
\* the call, the candidates generated by the first loop and the result
At(day, hour, minute) == ParseInLocation((day * 24 + hour) * 60 + minute)
ResolverTimes ==
    {At(0, 0, 0), At(0, 0, 1), At(0, 11, 59), At(0, 12, 0), At(0, 23, 59), At(1, 0, 0)}
ResolverItems == {[Message |-> "m", When |-> t, Generated |-> FALSE] : t \in ResolverTimes}
ResolverInputs == UNION {[1 .. n -> ResolverItems] : n \in 0 .. MaxParsed}

InitResolver ==
    /\ now \in Clock
    /\ conf \in {[MaxNumTries |-> 1, DefaultHour |-> h] : h \in 0 .. 23}
    /\ queueItems = << >>
    /\ temporaryMessages = << >>
    /\ keyboards = {}
    /\ tasks = EmptyBag
    /\ sink = << >>
    /\ ticks = [i \in 1 .. MaxItems |-> 0]
    /\ last = NoCall

Resolve ==
    \E parsed \in ResolverInputs :
        /\ last' = [op        |-> "filterParsed",
                    now       |-> now,
                    parsed    |-> parsed,
                    generated |-> Generate(conf, parsed),
                    filtered  |-> filterParsed(conf, parsed)]
        /\ UNCHANGED <<now, conf, queueItems, temporaryMessages, keyboards, tasks,
                       sink, ticks>>

NextResolver == Resolve

SpecResolver == InitResolver /\ [][NextResolver]_vars

\* ------------------------------------------------ one message at 09:00
\* handleMessage for messages of which parse() returns the one item
\* ("call mom", day 0 09:00), received at some time before 09:00 under any
\* default_hour, and the buttons pressed afterwards
CallMom == <<[Message |-> "call mom", When |-> At(0, 9, 0), Generated |-> FALSE]>>

InitCallMom ==
    /\ now \in {At(0, 9, 0) - d : d \in 1 .. (MaxTime + 1)}
    /\ conf \in {[MaxNumTries |-> MaxTries, DefaultHour |-> h] : h \in 0 .. 23}
    /\ queueItems = << >>
    /\ temporaryMessages = << >>
    /\ keyboards = {}
    /\ tasks = EmptyBag
    /\ sink = << >>
    /\ ticks = [i \in 1 .. MaxItems |-> 0]
    /\ last = NoCall

MessageCallMom ==
    \E c \in Chats, m \in MessageIDs, sent \in BOOLEAN :
        HandleMessage(c, m, CallMom, FALSE, sent)

NextCallMom == MessageCallMom \/ Callback

SpecCallMom == InitCallMom /\ [][NextCallMom]_vars

\* ------------------------------------- /load callbacks that may overlap
\* the /load branch of handleCallbackQuery taken a database call at a time:
\* LoadTemporaryMessage, Enqueue, DeleteTemporaryMessage.  A handler between
\* two calls is kept in tasks with the button b and the message it loaded, so
\* that another callback may be handled meanwhile.  last counts the handlers
\* that found a temporary message, and keeps whether one of them began while
\* another was under way.
Handler(pc, b, message) == [pc |-> pc, b |-> b, saved |-> message]
Found == IF last = NoCall THEN 0 ELSE last.found
Overlapped == IF last = NoCall THEN FALSE ELSE last.overlapped
\* the handlers that have loaded and not enqueued yet
Enqueueing ==
    LET hs == {h \in BagToSet(tasks) : h.pc = "enqueue"}
        RECURSIVE Sum(_)
        Sum(S) == IF S = {} THEN 0
                  ELSE LET h == CHOOSE x \in S : TRUE
                       IN  CopiesIn(h, tasks) + Sum(S \ {h})
    IN  Sum(hs)

\* db.LoadTemporaryMessage(chatID, messageID); not found, the handler is over
LoadBegin(b) ==
    /\ b.cmd = "/load"
    /\ LET saved == LoadTemporaryMessage(temporaryMessages, b.chatID, b.messageID)
       IN  IF saved = Nil THEN
              UNCHANGED <<tasks, last, temporaryMessages>>
           ELSE
              /\ Len(queueItems) + Enqueueing < MaxItems
              /\ tasks' = tasks (+) SetToBag({Handler("enqueue", b, saved[1].Message)})
              /\ last' = [op |-> "/load", found |-> Found + 1,
                          overlapped |-> Overlapped \/ tasks # EmptyBag]
              /\ UNCHANGED temporaryMessages
    /\ UNCHANGED <<now, conf, queueItems, keyboards, sink, ticks>>

\* db.Enqueue(chatID, messageID, saved.Message, when)
LoadEnqueue(h) ==
    /\ BagIn(h, tasks) /\ h.pc = "enqueue"
    /\ queueItems' = Enqueue(queueItems, h.b.chatID, h.b.messageID, h.saved,
                             ParseInLocation(h.b.param))
    /\ sink' = Append(sink, NewSink(ParseInLocation(h.b.param)))
    /\ tasks' = (tasks (-) SetToBag({h})) (+) SetToBag({Handler("delete", h.b, h.saved)})
    /\ UNCHANGED <<now, conf, temporaryMessages, keyboards, ticks, last>>

\* mutant of LoadDelete: the handler ends without deleting
LoadDeleteNothing(h) ==
    /\ BagIn(h, tasks) /\ h.pc = "delete"
    /\ tasks' = tasks (-) SetToBag({h})
    /\ UNCHANGED <<now, conf, queueItems, temporaryMessages, keyboards, sink, ticks,
                   last>>

\* db.DeleteTemporaryMessage(chatID, messageID)
LoadDelete(h) ==
    /\ BagIn(h, tasks) /\ h.pc = "delete"
    /\ temporaryMessages' = DeleteTemporaryMessage(temporaryMessages,
                                                   h.b.chatID, h.b.messageID)
    /\ tasks' = tasks (-) SetToBag({h})
    /\ UNCHANGED <<now, conf, queueItems, keyboards, sink, ticks, last>>

\* what parse() returns for a message that leaves a choice: 11:59, with the
\* clock before it
Ambiguous ==
    <<[Message |-> "m", When |-> ParseInLocation(datetimeToStr(ClockStart + 1)),
       Generated |-> FALSE]>>

MessageAmbiguous ==
    \E c \in Chats, m \in MessageIDs, sent \in BOOLEAN :
        HandleMessage(c, m, Ambiguous, FALSE, sent)
BeginLoad == \E b \in Pressable : LoadBegin(b)
EnqueueLoaded == \E h \in BagToSet(tasks) : LoadEnqueue(h)
DeleteLoaded == \E h \in BagToSet(tasks) : LoadDelete(h)

NextSelect == MessageAmbiguous \/ BeginLoad \/ EnqueueLoaded \/ DeleteLoaded

SpecSelect == Init /\ [][NextSelect]_vars

\* ------------------------------------------- the sequential, failing sink
\* processQueue run when no goroutine of an earlier tick is left; ticks counts,
\* per reminder that is stored and due, the runs it has seen (up to one more
\* than max_num_tries)
ProcessQueueAlone ==
    /\ tasks = EmptyBag
    /\ ProcessQueue
    /\ ticks' = [i \in DOMAIN ticks |->
                    IF /\ i \in DOMAIN queueItems
                       /\ queueItems[i].DeletedAt = Nil
                       /\ queueItems[i].FireOn <= now
                       /\ ticks[i] <= conf.MaxNumTries
                    THEN ticks[i] + 1 ELSE ticks[i]]

SendFails == \E t \in BagToSet(tasks) : SendMessage(t, FALSE)

NextC == Message \/ Callback \/ ProcessQueueAlone \/ SendFails \/ Incr \/ Elapse

SpecC == Init /\ [][NextC]_vars

\* ------------------------------------------- ticks that overlap, noted
\* the goroutines of reminder i that have not run to their end
InFlight(i) ==
    CopiesIn(Task("send", queueItems[i]), tasks)
        + CopiesIn(Task("mark", queueItems[i]), tasks)
        + CopiesIn(Task("incr", queueItems[i]), tasks)

\* processQueue as in Spec; ticks[i] becomes 1 when a tick launches a goroutine
\* for reminder i while one launched by an earlier tick is still running
ProcessQueueOverlap ==
    /\ ProcessQueue
    /\ ticks' = [i \in DOMAIN ticks |->
                    IF /\ i \in DOMAIN queueItems
                       /\ InFlight(i) > 0
                       /\ CopiesIn(Task("send", queueItems[i]), tasks')
                             > CopiesIn(Task("send", queueItems[i]), tasks)
                    THEN 1 ELSE ticks[i]]

NextOverlap == Message \/ Callback \/ ProcessQueueOverlap \/ Send \/ Mark \/ Incr \/ Elapse

SpecOverlap == Init /\ [][NextOverlap]_vars

\* ------------------------------------------------------- fair scheduling
\* the ticker keeps firing and every goroutine keeps running
SpecLive ==
    /\ Init /\ [][Next]_vars
    /\ WF_vars(Tick) /\ WF_vars(Send) /\ WF_vars(Mark) /\ WF_vars(Incr)

\* ------------------------------------- selections that fail on the way
\* a datetime in callback data that is not in datetimeFormat
Malformed == 0 - 1
\* time.ParseInLocation returned an error
ParseFailed(s) == s = Malformed
\* what a client may send as "/load" data: the data of a button shown, or the
\* same with a datetime that does not parse
LoadData ==
    {b \in keyboards : b.cmd = "/load"}
        \cup {[b EXCEPT !.param = Malformed] : b \in {k \in keyboards : k.cmd = "/load"}}

\* mutant of CallbackLoadOutcome: the temporary message is deleted as soon as it
\* is loaded
CallbackLoadOutcomeDeleting(b, enqueued) ==
    /\ b.cmd = "/load"
    /\ LET saved == LoadTemporaryMessage(temporaryMessages, b.chatID, b.messageID)
       IN  IF saved = Nil THEN
              UNCHANGED <<queueItems, temporaryMessages, sink>>
           ELSE IF ParseFailed(b.param) \/ ~enqueued THEN
              /\ temporaryMessages' = DeleteTemporaryMessage(temporaryMessages,
                                                             b.chatID, b.messageID)
              /\ UNCHANGED <<queueItems, sink>>
           ELSE
              /\ Len(queueItems) < MaxItems
              /\ queueItems' = Enqueue(queueItems, b.chatID, b.messageID,
                                       saved[1].Message, ParseInLocation(b.param))
              /\ sink' = Append(sink, NewSink(ParseInLocation(b.param)))
              /\ temporaryMessages' = DeleteTemporaryMessage(temporaryMessages,
                                                             b.chatID, b.messageID)

\* handleCallbackQuery, data "/load ...", with the ways it can stop early:
\* the datetime does not parse, or db.Enqueue returns an error (enqueued FALSE)
CallbackLoadOutcome(b, enqueued) ==
    /\ b.cmd = "/load"
    /\ LET saved == LoadTemporaryMessage(temporaryMessages, b.chatID, b.messageID)
       IN  IF saved = Nil THEN
              UNCHANGED <<queueItems, temporaryMessages, sink>>
           ELSE IF ParseFailed(b.param) THEN
              UNCHANGED <<queueItems, temporaryMessages, sink>>
           ELSE IF ~enqueued THEN
              UNCHANGED <<queueItems, temporaryMessages, sink>>
           ELSE
              /\ Len(queueItems) < MaxItems
              /\ queueItems' = Enqueue(queueItems, b.chatID, b.messageID,
                                       saved[1].Message, ParseInLocation(b.param))
              /\ sink' = Append(sink, NewSink(ParseInLocation(b.param)))
              /\ temporaryMessages' = DeleteTemporaryMessage(temporaryMessages,
                                                             b.chatID, b.messageID)

\* a "/load" callback query with its outcome
LoadQuery(b, enqueued) ==
    /\ CallbackLoadOutcome(b, enqueued)
    /\ UNCHANGED <<now, conf, keyboards, tasks, ticks, last>>

LoadOutcome == \E b \in LoadData, enqueued \in BOOLEAN : LoadQuery(b, enqueued)

NextOutcome == Message \/ Callback \/ LoadOutcome \/ Tick \/ Send \/ Mark \/ Incr \/ Elapse

SpecOutcome == InitCommands /\ [][NextOutcome]_vars

\* --------------------------------- two raw items with different texts
\* what parse() returns when the model answers with two candidates, each a
\* function call with its own text and datetime
TwoTexts ==
    <<[Message |-> "a", When |-> At(0, 12, 0), Generated |-> FALSE],
      [Message |-> "b", When |-> At(0, 12, 1), Generated |-> FALSE]>>

MessageTwoTexts ==
    \E c \in Chats, m \in MessageIDs, failed, sent \in BOOLEAN :
        HandleMessage(c, m, TwoTexts, failed, sent)

NextTwoTexts == MessageTwoTexts \/ Callback \/ Tick \/ Send \/ Mark \/ Incr \/ Elapse

SpecTwoTexts == Init /\ [][NextTwoTexts]_vars

\* ------------------------------------------------- who may use the bot
\* From.Username of an update: a *string, <<name>> or Nil
Senders == {<<"alice">>, <<"mallory">>, Nil}
\* allowed_telegram_users as the configuration file gives it: loadConfig takes
\* the list as it is, empty strings included
AllowedLists == {{"alice"}, {"alice", ""}}

\* isAllowed: username stays "" when the update has no username
isAllowed(cnf, from) ==
    LET username == IF from # Nil THEN from[1] ELSE ""
    IN  username \in cnf.AllowedTelegramUsers

InitAllowed ==
    /\ now = ClockStart
    /\ conf \in {[MaxNumTries |-> MaxTries, DefaultHour |-> 8,
                  AllowedTelegramUsers |-> a] : a \in AllowedLists}
    /\ queueItems = << >>
    /\ temporaryMessages = << >>
    /\ keyboards = {}
    /\ tasks = EmptyBag
    /\ sink = << >>
    /\ ticks = [i \in 1 .. MaxItems |-> 0]
    /\ last = NoCall

\* the message handler runBot sets: a message of a sender that is not allowed
\* is dropped
MessageFrom(from) ==
    IF isAllowed(conf, from) THEN Message ELSE UNCHANGED vars

\* the callback query handler runBot sets
CallbackFrom(from) ==
    IF isAllowed(conf, from) THEN Callback ELSE UNCHANGED vars

MessageUpdate == \E from \in Senders : MessageFrom(from)
CallbackUpdate == \E from \in Senders : CallbackFrom(from)

NextAllowed == MessageUpdate \/ CallbackUpdate \/ Tick \/ Send \/ Mark \/ Incr \/ Elapse

SpecAllowed == InitAllowed /\ [][NextAllowed]_vars

\* ------------------------------------------- a reminder for midnight
\* loadConfig: a default_hour outside 0 .. 23 becomes 0
DefaultHourLoaded(h) == IF h < 0 \/ h >= 24 THEN 0 ELSE h
\* the values of default_hour a configuration file may give
DefaultHours == {0 - 1, 0, 8, 23, 24}

\* what parse() returns for a date without time of day: 00:00 of the next day
Midnight == <<[Message |-> "m", When |-> At(1, 0, 0), Generated |-> FALSE]>>

InitMidnight ==
    /\ now \in {At(1, 0, 0) - d : d \in 1 .. (MaxTime + 1)}
    /\ conf \in {[MaxNumTries |-> n, DefaultHour |-> DefaultHourLoaded(h)] :
                    n \in 1 .. MaxTries, h \in DefaultHours}
    /\ queueItems = << >>
    /\ temporaryMessages = << >>
    /\ keyboards = {}
    /\ tasks = EmptyBag
    /\ sink = << >>
    /\ ticks = [i \in 1 .. MaxItems |-> 0]
    /\ last = NoCall

MessageMidnight ==
    \E c \in Chats, m \in MessageIDs, sent \in BOOLEAN :
        HandleMessage(c, m, Midnight, FALSE, sent)

NextMidnight == MessageMidnight \/ Callback

SpecMidnight == InitMidnight /\ [][NextMidnight]_vars

\* ================================================================ claims
Range(f) == {f[k] : k \in DOMAIN f}
ItemIDs == DOMAIN queueItems
Live(i) == queueItems[i].DeletedAt = Nil
\* the goroutines for reminder i that are at statement pc
AtPc(i, pc) == CopiesIn(Task(pc, queueItems[i]), tasks)
\* the values of max_num_tries the queries are tried with
TriesRange == 1 .. (MaxTries + 1)
Eligible(i, m) ==
    /\ Live(i)
    /\ queueItems[i].DeliveredOn = Nil
    /\ queueItems[i].NumTries < m
    /\ queueItems[i].FireOn <= now

\* C1: the Delivery Sink reports success for a reminder at most once.
C1_ExactlyOnce == \A i \in ItemIDs : sink[i].oks <= 1

\* C2: for every maxNumTries > 0, every result of DeliverableItems(maxNumTries)
\* lists, each once, exactly the stored (not deleted) items with deliveredOn
\* null, numTries < maxNumTries and fireOn <= now.
C2_Eligibility ==
    \A m \in TriesRange :
        /\ DeliverableQueueItems(queueItems, m) # {}
        /\ \A queue \in DeliverableQueueItems(queueItems, m) :
              /\ Range(queue) = {i \in ItemIDs : Eligible(i, m)}
              /\ Len(queue) = Cardinality(Range(queue))

\* one reminder is returned while another is left out for having used up its tries
C2_Witness ==
    \E i, j \in ItemIDs :
        /\ Eligible(i, conf.MaxNumTries)
        /\ Live(j) /\ queueItems[j].DeliveredOn = Nil
        /\ queueItems[j].FireOn <= now
        /\ queueItems[j].NumTries >= conf.MaxNumTries

\* C3: once deliveredOn of a reminder is set, no step changes it.
C3_DeliveredOnSetOnce ==
    [][\A i \in ItemIDs :
          queueItems[i].DeliveredOn # Nil
              => queueItems'[i].DeliveredOn = queueItems[i].DeliveredOn]_vars

\* C4: neither the number of delivery attempts made for a reminder nor its
\* numTries ever exceeds maxNumTries.
C4_TriesBounded ==
    \A i \in ItemIDs :
        /\ sink[i].sends + AtPc(i, "send") <= conf.MaxNumTries
        /\ queueItems[i].NumTries <= conf.MaxNumTries

\* C5 as stated: a reminder enqueued with fireOn already in the past is never
\* handed to the Delivery Sink.
C5_HistoricalNeverSent ==
    \A i \in ItemIDs : sink[i].past => sink[i].sends = 0 /\ AtPc(i, "send") = 0

\* C5 as amended: a reminder enqueued with fireOn already in the past is
\* eligible at once: as long as it is stored, undelivered and has tries left,
\* every DeliverableItems result includes it.
C5_HistoricalEligible ==
    \A i \in ItemIDs :
        (sink[i].past /\ Live(i) /\ queueItems[i].DeliveredOn = Nil
            /\ queueItems[i].NumTries < conf.MaxNumTries)
        => \A queue \in DeliverableQueueItems(queueItems, conf.MaxNumTries) :
              i \in Range(queue)

\* a reminder that was enqueued late has been sent and marked delivered
C5_Witness ==
    \E i \in ItemIDs :
        sink[i].past /\ sink[i].oks >= 1 /\ queueItems[i].DeliveredOn # Nil

\* C6: for a reminder that is not deleted, numTries is the number of delivery
\* attempts that ran to their end, whatever the sends answered, and deliveredOn
\* is set exactly if an attempt whose send succeeded has passed its marking.
C6_AttemptProtocol ==
    \A i \in ItemIDs :
        Live(i) =>
            /\ queueItems[i].NumTries = sink[i].done
            /\ queueItems[i].DeliveredOn # Nil <=> sink[i].oks - AtPc(i, "mark") >= 1

\* a failed and a successful attempt for one reminder have both run to their end
C6_Witness ==
    \E i \in ItemIDs :
        /\ Live(i) /\ sink[i].done = 2 /\ sink[i].sends = 2 /\ sink[i].oks = 1

\* C7: once MarkDelivered has changed a reminder's row, no DeliverableItems
\* result includes it, whatever maxNumTries is asked for.
C7_DeliveredAbsorbing ==
    \A i \in ItemIDs :
        sink[i].marked =>
            \A m \in TriesRange \cup {0} :
                \A queue \in DeliverableQueueItems(queueItems, m) : i \notin Range(queue)

\* a reminder was marked delivered on its first try: it is due and has tries left
C7_Witness ==
    \E i \in ItemIDs :
        /\ sink[i].marked /\ Live(i)
        /\ queueItems[i].FireOn <= now
        /\ queueItems[i].NumTries < conf.MaxNumTries

\* C8: an undelivered reminder whose numTries has reached maxNumTries stays out
\* of DeliverableItems and stays in UndeliveredItems of its chat until it is
\* cancelled.
C8_GivenUpStaysListed ==
    [][\A i \in ItemIDs :
          (Live(i) /\ queueItems[i].DeliveredOn = Nil
              /\ queueItems[i].NumTries >= conf.MaxNumTries)
          => \/ queueItems'[i].DeletedAt # Nil
             \/ /\ \A queue \in DeliverableQueueItems(queueItems', conf.MaxNumTries) :
                      i \notin Range(queue)
                /\ \A list \in UndeliveredQueueItems(queueItems', queueItems[i].ChatID) :
                      i \in Range(list)]_vars

\* C9: with a sink that always fails and ticks that do not overlap, a reminder
\* that is not cancelled has, once the attempts of the ticks it has seen are
\* over, numTries = min(ticks seen, maxNumTries) and deliveredOn = null; after
\* maxNumTries ticks it is out of DeliverableItems, in UndeliveredItems and not
\* attempted again.
C9_ScenarioC ==
    \A i \in ItemIDs :
        LET N == conf.MaxNumTries
            seen == IF ticks[i] <= N THEN ticks[i] ELSE N
        IN  Live(i) =>
              /\ queueItems[i].DeliveredOn = Nil
              /\ sink[i].sends + AtPc(i, "send") = seen
              /\ tasks = EmptyBag => queueItems[i].NumTries = seen
              /\ (ticks[i] >= N /\ tasks = EmptyBag) =>
                    /\ \A queue \in DeliverableQueueItems(queueItems, N) :
                          i \notin Range(queue)
                    /\ \A list \in UndeliveredQueueItems(queueItems, queueItems[i].ChatID) :
                          i \in Range(list)

\* a reminder has seen one tick more than maxNumTries = MaxTries
C9_Witness ==
    \E i \in ItemIDs :
        /\ Live(i) /\ conf.MaxNumTries = MaxTries
        /\ ticks[i] = MaxTries + 1 /\ tasks = EmptyBag
        /\ queueItems[i].NumTries = MaxTries

StillEligible(i) == i \in ItemIDs /\ Eligible(i, conf.MaxNumTries)

\* C10: under fair scheduling no reminder stays eligible forever: it gets
\* delivered, uses up its tries or is cancelled.
C10_EventualOutcome ==
    \A i \in 1 .. MaxItems :
        [](StillEligible(i) => <>(~StillEligible(i)))

\* a due reminder has used up its tries without being delivered
C10_Witness ==
    \E i \in ItemIDs :
        /\ Live(i) /\ queueItems[i].DeliveredOn = Nil
        /\ queueItems[i].FireOn <= now
        /\ queueItems[i].NumTries >= conf.MaxNumTries

\* C11: MarkDelivered never reports an error; called for a reminder that is
\* already delivered, or for one that is not stored, it returns false and leaves
\* deliveredOn as it was; otherwise it sets deliveredOn to now and returns true.
C11_MarkDeliveredContract ==
    [][\A t \in BagToSet(tasks) :
          MarkDelivered(t) =>
              LET q == queueItems[t.ID]
                  ret == MarkQueueItemAsDeliveredReturns(queueItems, t.ChatID, t.ID)
              IN  /\ ret.err = Nil
                  /\ IF q.DeliveredOn # Nil \/ q.DeletedAt # Nil
                     THEN /\ ~ret.result
                          /\ queueItems'[t.ID].DeliveredOn = q.DeliveredOn
                     ELSE /\ ret.result
                          /\ queueItems'[t.ID].DeliveredOn = <<now>>]_vars

\* C12 as stated: MarkDelivered called with a chat that is not the one stored
\* for the reminder changes no row and reports an error to its caller.
C12_MismatchIsError ==
    [][\A c \in StoreChats, i \in StoreIDs :
          (StoreMarkCall(c, i) /\ i \in ItemIDs /\ queueItems[i].ChatID # c)
          => queueItems' = queueItems /\ last'.ret.err # Nil]_vars

\* C12 as amended: MarkDelivered called with a chat that is not the one stored
\* for the reminder changes no row and returns false with no error.
C12_MismatchIsFalse ==
    [][\A c \in StoreChats, i \in StoreIDs :
          (StoreMarkCall(c, i) /\ i \in ItemIDs /\ queueItems[i].ChatID # c)
          => /\ queueItems' = queueItems
             /\ ~last'.ret.result
             /\ last'.ret.err = Nil]_vars

\* the last call was MarkDelivered for a stored, undelivered reminder of another
\* chat
C12_Witness ==
    /\ last.op = "MarkQueueItemAsDelivered"
    /\ last.queueID \in ItemIDs
    /\ queueItems[last.queueID].ChatID # last.chatID
    /\ Live(last.queueID)
    /\ queueItems[last.queueID].DeliveredOn = Nil

\* C13: when a reminder was cancelled while a delivery attempt for it was in
\* flight, the attempt's MarkDelivered and IncreaseNumTries calls change no row
\* (the reminder stays deleted, every other one stays as it is), return false
\* and report no error.
C13_CancelRaceBenign ==
    [][\A t \in BagToSet(tasks) :
          (~Live(t.ID) /\ (MarkDelivered(t) \/ IncreaseTries(t)))
          => /\ queueItems' = queueItems
             /\ Returned(QueueItemRows(queueItems, t.ChatID, t.ID))
                    = [result |-> FALSE, err |-> Nil]]_vars

\* a cancelled reminder whose attempt, sent with success, has since made both
\* calls: it is neither marked delivered nor counted
C13_Witness ==
    \E i \in ItemIDs :
        /\ ~Live(i)
        /\ sink[i].oks >= 1 /\ AtPc(i, "mark") = 0
        /\ queueItems[i].DeliveredOn = Nil
        /\ sink[i].done > queueItems[i].NumTries

\* C14: every Enqueue call stores one more reminder, whatever is stored already:
\* the new one has an ID no stored reminder has, deliveredOn null and numTries 0,
\* and the stored ones stay as they are; afterwards a step changes one reminder
\* at most, so equal reminders evolve apart.
C14_EnqueueIndependent ==
    [][/\ Len(sink') = Len(sink) + 1 <=> Len(queueItems') = Len(queueItems) + 1
       /\ Len(queueItems') # Len(queueItems) =>
              LET new == queueItems'[Len(queueItems')]
              IN  /\ Len(queueItems') = Len(queueItems) + 1
                  /\ \A i \in ItemIDs : queueItems[i].ID # new.ID
                  /\ new.DeliveredOn = Nil /\ new.NumTries = 0 /\ new.DeletedAt = Nil
                  /\ \A i \in ItemIDs : queueItems'[i] = queueItems[i]
       /\ Cardinality({i \in ItemIDs : queueItems'[i] # queueItems[i]}) <= 1]_vars

\* two reminders enqueued with the same chat, message and fireOn, one delivered
\* and one not
C14_Witness ==
    \E i, j \in ItemIDs :
        /\ queueItems[i].ID # queueItems[j].ID
        /\ queueItems[i].ChatID = queueItems[j].ChatID
        /\ queueItems[i].MessageID = queueItems[j].MessageID
        /\ queueItems[i].Message = queueItems[j].Message
        /\ queueItems[i].FireOn = queueItems[j].FireOn
        /\ queueItems[i].DeliveredOn # Nil /\ queueItems[i].NumTries = 1
        /\ queueItems[j].DeliveredOn = Nil /\ queueItems[j].NumTries = 0

\* C15: in every DeliverableItems result a reminder enqueued later (one with a
\* larger ID) comes before every reminder enqueued earlier.
C15_NewestFirst ==
    \A queue \in DeliverableQueueItems(queueItems, conf.MaxNumTries) :
        \A a, b \in DOMAIN queue : a < b => queue[a] > queue[b]

\* C16: for every chat, every result of UndeliveredItems(chat) lists, each once,
\* exactly the stored (not deleted) reminders of that chat with deliveredOn null,
\* due or not and with tries left or not, in ascending order of fireOn.
C16_UndeliveredExact ==
    \A c \in StoreChats :
        /\ UndeliveredQueueItems(queueItems, c) # {}
        /\ \A list \in UndeliveredQueueItems(queueItems, c) :
              /\ Range(list) = {i \in ItemIDs : /\ Live(i)
                                                /\ queueItems[i].ChatID = c
                                                /\ queueItems[i].DeliveredOn = Nil}
              /\ Len(list) = Cardinality(Range(list))
              /\ \A a, b \in DOMAIN list :
                    a < b => queueItems[list[a]].FireOn <= queueItems[list[b]].FireOn

\* a chat has two undelivered reminders, the one stored first firing later: it
\* is not due yet and has used up its tries
C16_Witness ==
    \E i, j \in ItemIDs :
        /\ i < j /\ queueItems[i].ChatID = queueItems[j].ChatID
        /\ Live(i) /\ queueItems[i].DeliveredOn = Nil
        /\ Live(j) /\ queueItems[j].DeliveredOn = Nil
        /\ queueItems[i].FireOn > queueItems[j].FireOn
        /\ queueItems[i].FireOn > now
        /\ queueItems[i].NumTries >= conf.MaxNumTries
        /\ UndeliveredQueueItems(queueItems, queueItems[i].ChatID) = {<<j, i>>}

\* C17: every candidate the resolver returns is strictly after the now it
\* filtered with, for every input and every default hour 0..23.
C17_FutureOnly ==
    last.op = "filterParsed" =>
        \A k \in DOMAIN last.filtered : last.filtered[k].When > last.now

\* a call that returned a candidate and dropped one falling exactly on now
C17_Witness ==
    /\ last.op = "filterParsed"
    /\ last.filtered # << >>
    /\ \E k \in DOMAIN last.generated : last.generated[k].When = last.now

\* C18: no two candidates the resolver returns have the same formatted time
\* (minute resolution in the configured location).
C18_Deduplicated ==
    last.op = "filterParsed" =>
        \A a, b \in DOMAIN last.filtered :
            a # b => datetimeToStr(last.filtered[a].When)
                        # datetimeToStr(last.filtered[b].When)

\* a call whose generated candidates held the same future minute twice
C18_Witness ==
    /\ last.op = "filterParsed"
    /\ \E a, b \in DOMAIN last.generated :
          /\ a # b
          /\ last.generated[a].When = last.generated[b].When
          /\ last.generated[a].When > last.now

\* the minute of the day of a raw item, and the candidate expected beside it at
\* minute m of the same day
MinuteOfDay(p) == datetimeToStr(p.When) % (24 * 60)
Synthetic(p, m) ==
    [Message   |-> p.Message,
     When      |-> ParseInLocation(datetimeToStr(p.When) - MinuteOfDay(p) + m),
     Generated |-> TRUE]
\* generated holds a right after p
Followed(generated, p, a) ==
    \E j \in DOMAIN generated :
        /\ j + 1 \in DOMAIN generated
        /\ generated[j] = p /\ generated[j + 1] = a

\* C19: a raw item at exactly 00:00 is expanded into itself followed by one
\* synthetic candidate at defaultHour:00 of the same date, two candidates in
\* all, and into no candidate 12 hours later.
C19_MidnightSentinel ==
    last.op = "filterParsed" =>
        \A k \in DOMAIN last.parsed :
            LET p == last.parsed[k]
            IN  MinuteOfDay(p) = 0 =>
                  /\ Followed(last.generated, p, Synthetic(p, conf.DefaultHour * 60))
                  /\ Len(last.parsed) = 1 => Len(last.generated) = 2
                  /\ conf.DefaultHour # 12 =>
                        \A j \in DOMAIN last.generated :
                            last.generated[j] # Synthetic(p, 12 * 60)

\* a call with one raw item at 00:00, the default hour neither 0 nor 12
C19_Witness ==
    /\ last.op = "filterParsed"
    /\ Len(last.parsed) = 1 /\ MinuteOfDay(last.parsed[1]) = 0
    /\ conf.DefaultHour \notin {0, 12}
    /\ Len(last.generated) = 2

\* C20: a raw item not at 00:00 whose hour is below 12 is expanded into itself
\* followed by one synthetic candidate exactly 12 hours later; a raw item whose
\* hour is 12 or more is expanded into itself alone.
C20_AmPm ==
    last.op = "filterParsed" =>
        \A k \in DOMAIN last.parsed :
            LET p == last.parsed[k]
                twin == [Message |-> p.Message, When |-> p.When + 12 * Hour,
                         Generated |-> TRUE]
            IN  /\ (MinuteOfDay(p) # 0 /\ MinuteOfDay(p) < 12 * 60) =>
                      /\ Followed(last.generated, p, twin)
                      /\ Synthetic(p, MinuteOfDay(p) + 12 * 60) = twin
                      /\ Len(last.parsed) = 1 => Len(last.generated) = 2
                /\ (MinuteOfDay(p) >= 12 * 60 /\ Len(last.parsed) = 1) =>
                      last.generated = <<p>>

\* a call with one raw item in the hour after midnight, not at 00:00
C20_Witness ==
    /\ last.op = "filterParsed"
    /\ Len(last.parsed) = 1
    /\ MinuteOfDay(last.parsed[1]) \in 1 .. 59
    /\ Len(last.generated) = 2

\* C21: the resolver's result is the expansion list (the raw items in input
\* order, each followed by its synthetic twin) with, of the candidates of one
\* minute, all but the first left out and then the ones not after now left out;
\* the candidates that stay keep the order they had in the expansion list.
C21_StableOrder ==
    last.op = "filterParsed" =>
        LET g == last.generated
            first == {k \in DOMAIN g :
                         \A j \in 1 .. (k - 1) :
                             datetimeToStr(g[j].When) # datetimeToStr(g[k].When)}
            kept == {k \in first : g[k].When > last.now}
            nth(n) == CHOOSE k \in kept : Cardinality({j \in kept : j <= k}) = n
        IN  /\ \A k \in DOMAIN last.parsed :
                  \E j \in DOMAIN g :
                      /\ g[j] = last.parsed[k]
                      /\ Cardinality({i \in 1 .. j : ~g[i].Generated}) = k
            /\ \A j \in DOMAIN g : g[j].Generated => j > 1 /\ ~g[j - 1].Generated
            /\ last.filtered = [n \in 1 .. Cardinality(kept) |-> g[nth(n)]]

\* a call that returned two candidates, the second a synthetic one whose minute
\* came again later in the expansion list as a raw item
C21_Witness ==
    /\ last.op = "filterParsed"
    /\ Len(last.filtered) = 2
    /\ last.filtered[2].Generated
    /\ \E a, b \in DOMAIN last.generated :
          /\ a < b
          /\ last.generated[a] = last.filtered[2]
          /\ ~last.generated[b].Generated
          /\ last.generated[b].When = last.filtered[2].When

\* C22 as stated: for the one raw item ("call mom", 09:00) with now before
\* 09:00 the resolver returns one candidate, and the message handler stores one
\* reminder and no pending selection.
C22_ScenarioBDirect ==
    [][\A c \in Chats, m \in MessageIDs, sent \in BOOLEAN :
          HandleMessage(c, m, CallMom, FALSE, sent)
          => /\ Len(filterParsed(conf, CallMom)) = 1
             /\ Len(queueItems') = Len(queueItems) + 1
             /\ temporaryMessages' = temporaryMessages]_vars

\* C22 as amended: for the one raw item ("call mom", 09:00) with now before
\* 09:00 the resolver returns two candidates, 09:00 and the synthetic 21:00 of
\* the same day, and the message handler stores one pending selection under the
\* chat and message IDs and no reminder.
C22_ScenarioBSelection ==
    [][\A c \in Chats, m \in MessageIDs, sent \in BOOLEAN :
          HandleMessage(c, m, CallMom, FALSE, sent)
          => /\ filterParsed(conf, CallMom)
                   = CallMom \o <<[Message |-> "call mom", When |-> At(0, 21, 0),
                                   Generated |-> TRUE]>>
             /\ queueItems' = queueItems
             /\ Len(temporaryMessages') = Len(temporaryMessages) + 1
             /\ temporaryMessages'[Len(temporaryMessages')]
                   = [ChatID |-> c, MessageID |-> m, Message |-> "call mom",
                      DeletedAt |-> Nil]]_vars

\* the message was handled before 09:00: a pending selection "call mom" is
\* stored, the buttons for 09:00 and 21:00 are shown, and no reminder is stored
C22_Witness ==
    /\ now < At(0, 9, 0)
    /\ queueItems = << >>
    /\ \E k \in DOMAIN temporaryMessages :
          /\ temporaryMessages[k].Message = "call mom"
          /\ temporaryMessages[k].DeletedAt = Nil
          /\ {LoadButton(temporaryMessages[k].ChatID, temporaryMessages[k].MessageID, t) :
                 t \in {At(0, 9, 0), At(0, 21, 0)}} \subseteq keyboards

\* C23: handling a text message whose extraction succeeded, with the resolver's
\* result f: if f has one candidate, one reminder with that candidate's message
\* and instant is stored for the chat and no pending selection is saved; if f
\* has more, one pending selection is saved under the chat and message IDs and
\* no reminder is stored; if f is empty, neither is stored.  Nothing already
\* stored is changed.
C23_MessageBranch ==
    [][\A c \in Chats, m \in MessageIDs, p \in ParsedInputs, sent \in BOOLEAN :
          HandleMessage(c, m, p, FALSE, sent) =>
              LET f == filterParsed(conf, p)
                  q == queueItems'[Len(queueItems')]
                  s == temporaryMessages'[Len(temporaryMessages')]
              IN  /\ \A i \in ItemIDs : queueItems'[i] = queueItems[i]
                  /\ \A k \in DOMAIN temporaryMessages :
                        temporaryMessages'[k] = temporaryMessages[k]
                  /\ Len(f) = 1 =>
                        /\ Len(queueItems') = Len(queueItems) + 1
                        /\ q.ChatID = c /\ q.MessageID = m
                        /\ q.Message = f[1].Message /\ q.FireOn = f[1].When
                        /\ temporaryMessages' = temporaryMessages
                  /\ Len(f) > 1 =>
                        /\ Len(temporaryMessages') = Len(temporaryMessages) + 1
                        /\ s.ChatID = c /\ s.MessageID = m
                        /\ s.Message = f[1].Message /\ s.DeletedAt = Nil
                        /\ queueItems' = queueItems
                  /\ Len(f) = 0 =>
                        /\ queueItems' = queueItems
                        /\ temporaryMessages' = temporaryMessages]_vars

\* one message was stored as a reminder at once (no pending selection was ever
\* consumed) and another one is waiting as a pending selection
C23_Witness ==
    /\ Len(queueItems) = 1
    /\ temporaryMessages # << >>
    /\ \A k \in DOMAIN temporaryMessages : temporaryMessages[k].DeletedAt = Nil
    /\ \E b \in keyboards : b.cmd = "/load"

\* C24: a selection event for a key under which a pending selection is stored
\* stores exactly one reminder, with the pending message and with fireOn the
\* chosen instant, and deletes the pending selection, so that it is found no
\* more; a selection event for a key with no pending selection (consumed
\* before) finds nothing and stores nothing.
C24_ConsumeOnce ==
    [][\A b \in Pressable :
          (b.cmd = "/load" /\ HandleCallbackQuery(b)) =>
              LET saved == LoadTemporaryMessage(temporaryMessages, b.chatID, b.messageID)
                  q == queueItems'[Len(queueItems')]
              IN  IF saved # Nil
                  THEN /\ Len(queueItems') = Len(queueItems) + 1
                       /\ \A i \in ItemIDs : queueItems'[i] = queueItems[i]
                       /\ q.ChatID = b.chatID /\ q.MessageID = b.messageID
                       /\ q.Message = saved[1].Message
                       /\ datetimeToStr(q.FireOn) = b.param
                       /\ q.FireOn % Minute = 0
                       /\ LoadTemporaryMessage(temporaryMessages', b.chatID, b.messageID)
                             = Nil
                  ELSE /\ queueItems' = queueItems
                       /\ temporaryMessages' = temporaryMessages]_vars

\* a pending selection was consumed: it is deleted, the one reminder made from
\* it fires at the time of a button that can still be pressed again, and another
\* button of the same selection was not chosen
C24_Witness ==
    \E b, other \in keyboards :
        /\ b.cmd = "/load" /\ other.cmd = "/load" /\ other.param # b.param
        /\ LoadTemporaryMessage(temporaryMessages, b.chatID, b.messageID) = Nil
        /\ Len(queueItems) = 1
        /\ queueItems[1].ChatID = b.chatID /\ queueItems[1].MessageID = b.messageID
        /\ queueItems[1].FireOn = ParseInLocation(b.param)
        /\ Len(temporaryMessages) = 1

\* the reminders stored for, and the pending selections saved under, chat c and
\* message m (deleted ones counted too)
MadeFrom(c, m) ==
    {i \in ItemIDs : queueItems[i].ChatID = c /\ queueItems[i].MessageID = m}
SavedUnder(c, m) ==
    {k \in DOMAIN temporaryMessages :
        temporaryMessages[k].ChatID = c /\ temporaryMessages[k].MessageID = m}

\* C25 as stated: whatever the interleaving of the selection callbacks, two for
\* one key handled at once included, no more reminders are made from a key than
\* pending selections were saved under it.
C25_AtMostOne ==
    \A c \in Chats, m \in MessageIDs :
        Cardinality(MadeFrom(c, m)) <= Cardinality(SavedUnder(c, m))

\* C25 as amended: as long as no selection callback began while another was
\* under way, no more reminders are made from a key than pending selections were
\* saved under it; in every interleaving each callback that found the pending
\* selection makes exactly one reminder, so that callbacks handled at once can
\* make one each from a single pending selection.
C25_OnePerCallback ==
    /\ ~Overlapped =>
          \A c \in Chats, m \in MessageIDs :
              Cardinality(MadeFrom(c, m)) <= Cardinality(SavedUnder(c, m))
    /\ Len(queueItems) + Enqueueing = Found
    /\ Found > Len(temporaryMessages) => Overlapped

\* two callbacks for one key were handled at once, both found the one pending
\* selection, and both have finished
C25_Witness ==
    /\ Overlapped /\ Found = 2 /\ tasks = EmptyBag
    /\ Len(temporaryMessages) = 1
    /\ temporaryMessages[1].DeletedAt # Nil
    /\ Len(queueItems) = 2

\* C26: LoadPendingSelection for a key returns the message of the latest
\* SavePendingSelection call made for that key since the key was last deleted.
C26_LastWriteWins ==
    last.op = "LoadTemporaryMessage" =>
        LET rows == TemporaryMessageRows(temporaryMessages, last.chatID, last.messageID)
            latest == CHOOSE k \in rows : \A j \in rows : j <= k
        IN  rows # {} =>
              /\ last.ret # Nil
              /\ last.ret[1].Message = temporaryMessages[latest].Message

\* C27: pressing the plain cancel button of a presented selection changes
\* nothing in the store: no reminder is stored, changed or deleted, and the
\* pending selection stays stored.
C27_CancelTouchesNothing ==
    [][\A b \in keyboards :
          (b.cmd = "/cancel" /\ b.param = 0 /\ HandleCallbackQuery(b))
          => /\ queueItems' = queueItems
             /\ temporaryMessages' = temporaryMessages]_vars

\* a selection is presented (its load buttons and its cancel button are shown)
\* and its pending selection is stored, with no reminder stored
C27_Witness ==
    \E b, x \in keyboards :
        /\ b.cmd = "/load"
        /\ x = CancelButton(b.chat, 0)
        /\ LoadTemporaryMessage(temporaryMessages, b.chatID, b.messageID) # Nil
        /\ queueItems = << >>

\* C28: a cancel request from chat c for queue id i deletes the reminder i and
\* changes no other one when i is a stored reminder of chat c, after which no
\* query finds it; when no reminder i is stored, or it is of another chat, the
\* request deletes and changes nothing.
C28_CancelAddressed ==
    [][\A c \in StoreChats, i \in CancelIDs :
          HandleCallbackQuery(CancelButton(c, i)) =>
              IF i \in ItemIDs /\ Live(i) /\ queueItems[i].ChatID = c
              THEN /\ queueItems'[i] = [queueItems[i] EXCEPT !.DeletedAt = Deleted]
                   /\ \A j \in ItemIDs \ {i} : queueItems'[j] = queueItems[j]
                   /\ GetQueueItem(queueItems', c, i) = {}
                   /\ \A list \in UndeliveredQueueItems(queueItems', c) :
                         i \notin Range(list)
                   /\ \A queue \in DeliverableQueueItems(queueItems', conf.MaxNumTries) :
                         i \notin Range(queue)
              ELSE queueItems' = queueItems]_vars

\* a reminder of one chat was cancelled and an undelivered reminder of the other
\* chat is stored as it was enqueued
C28_Witness ==
    \E i, j \in ItemIDs :
        /\ queueItems[i].ChatID # queueItems[j].ChatID
        /\ ~Live(i)
        /\ Live(j) /\ queueItems[j].DeliveredOn = Nil /\ queueItems[j].NumTries = 0

\* reminder i has the message, fireOn, numTries and deliveredOn it had
SameReminder(i) ==
    /\ queueItems'[i].Message = queueItems[i].Message
    /\ queueItems'[i].FireOn = queueItems[i].FireOn
    /\ queueItems'[i].NumTries = queueItems[i].NumTries
    /\ queueItems'[i].DeliveredOn = queueItems[i].DeliveredOn

\* C29: numTries and deliveredOn of a stored reminder are changed by steps of
\* the dispatch loop's delivery attempts only; handling a message, a callback
\* (selection or cancel), the list command and the cancel-menu command leaves
\* message, fireOn, numTries and deliveredOn of every stored reminder as they
\* were; and a reminder is added only by handling a message (direct enqueue) or
\* a selection callback, one at a time.
C29_Ownership ==
    [][/\ (\E i \in ItemIDs :
              \/ queueItems'[i].NumTries # queueItems[i].NumTries
              \/ queueItems'[i].DeliveredOn # queueItems[i].DeliveredOn)
          => (Mark \/ Incr)
       /\ (Message \/ Callback \/ ListReminders \/ CancelMenu \/ Tick \/ Send)
          => \A i \in ItemIDs : SameReminder(i)
       /\ Len(queueItems') # Len(queueItems)
          => /\ Len(queueItems') = Len(queueItems) + 1
             /\ \/ Message
                \/ \E b \in Pressable : b.cmd = "/load" /\ HandleCallbackQuery(b)]_vars

\* two reminders are stored, one made from the only pending selection ever
\* saved and one enqueued directly; a delivery attempt has marked one delivered
\* and counted its try, and the cancel menu has been shown
C29_Witness ==
    /\ Len(queueItems) = 2
    /\ Len(temporaryMessages) = 1 /\ temporaryMessages[1].DeletedAt # Nil
    /\ \E i \in ItemIDs : queueItems[i].DeliveredOn # Nil /\ queueItems[i].NumTries = 1
    /\ \E b \in keyboards : b.cmd = "/cancel" /\ b.param # 0

\* C30: no call on the store lowers or resets numTries of a stored reminder,
\* whichever call it is, with whichever chat and id, and whether the reminder is
\* delivered or deleted.
C30_NumTriesMonotonic ==
    [][\A i \in ItemIDs : queueItems'[i].NumTries >= queueItems[i].NumTries]_vars

\* a reminder whose tries were counted up to MaxTries, and which was then
\* marked delivered and deleted, beside one stored after it
C30_Witness ==
    \E i, j \in ItemIDs :
        /\ i < j
        /\ queueItems[i].NumTries = MaxTries
        /\ queueItems[i].DeliveredOn # Nil
        /\ ~Live(i)
        /\ queueItems[j].NumTries = 0

\* C31: as long as no tick has launched a goroutine for a reminder while an
\* earlier goroutine for it was still running, the sink reports success for it
\* at most once and it is not handed to the sink again afterwards; a tick that
\* scans before the earlier goroutine has marked the reminder delivered can
\* launch a second one (the witness), and then it is sent twice.
C31_DuplicateOnlyByOverlap ==
    \A i \in ItemIDs :
        (ticks[i] = 0 /\ sink[i].oks >= 1)
        => /\ sink[i].oks = 1
           /\ AtPc(i, "send") = 0

\* a reminder was sent with success twice, by goroutines of two ticks of which
\* the second scanned while the first goroutine was running
C31_Witness ==
    \E i \in ItemIDs :
        /\ ticks[i] = 1 /\ sink[i].oks = 2
        /\ Live(i) /\ queueItems[i].DeliveredOn # Nil

\* C32: enqueuedOn of every stored reminder is the instant at which it was
\* enqueued: a time the clock has shown, not after now.
C32_EnqueuedOnIsCreation ==
    \A i \in ItemIDs :
        /\ queueItems[i].EnqueuedOn \in Clock
        /\ queueItems[i].EnqueuedOn <= now

\* the stored temporary messages (PendingSelections)
Pending(tbl) == {k \in DOMAIN tbl : tbl[k].DeletedAt = Nil}

\* C33: a PendingSelection leaves the store only in a step that is a selection
\* which parsed and enqueued, and that step adds one reminder; a selection
\* whose datetime does not parse or whose Enqueue fails changes neither the
\* temporary messages nor the reminders; a tick and the goroutines never
\* change the temporary messages.
C33_RemovedOnlyBySelection ==
    [][/\ (\E k \in Pending(temporaryMessages) : k \notin Pending(temporaryMessages'))
            => /\ \E b \in LoadData :
                     ~ParseFailed(b.param) /\ LoadQuery(b, TRUE)
               /\ Len(queueItems') = Len(queueItems) + 1
       /\ \A b \in LoadData, enqueued \in BOOLEAN :
             (LoadQuery(b, enqueued) /\ (ParseFailed(b.param) \/ ~enqueued))
                => UNCHANGED <<temporaryMessages, queueItems>>
       /\ (Tick \/ Send \/ Mark \/ Incr \/ Elapse) => UNCHANGED temporaryMessages
      ]_vars

\* a selection was made and its message is stored no more, while another
\* message is still waiting for its selection after the clock has moved on
C33_Witness ==
    /\ \E k \in DOMAIN temporaryMessages : k \notin Pending(temporaryMessages)
    /\ Pending(temporaryMessages) # {}
    /\ now > ClockStart
    /\ queueItems # << >>

\* C34: every IncreaseNumTries call of a goroutine for a stored reminder adds
\* exactly one to its numTries, also when goroutines of overlapping ticks call
\* it for the same reminder, so that numTries is the number of calls made; and
\* an IncreaseNumTries or MarkQueueItemAsDelivered call for one reminder leaves
\* the rows of all other reminders as they were.
C34_AtomicIncrement ==
    [][/\ \A t \in BagToSet(tasks) :
             /\ (IncreaseTries(t) /\ Live(t.ID))
                   => queueItems'[t.ID].NumTries = queueItems[t.ID].NumTries + 1
             /\ (IncreaseTries(t) \/ MarkDelivered(t))
                   => \A j \in ItemIDs \ {t.ID} : queueItems'[j] = queueItems[j]
       /\ \A i \in DOMAIN queueItems' :
             queueItems'[i].DeletedAt = Nil
                => queueItems'[i].NumTries = sink'[i].done
      ]_vars

\* two goroutines of overlapping ticks have both counted their try of one
\* reminder, while another reminder has been tried once
C34_Witness ==
    \E i, j \in ItemIDs :
        /\ i # j /\ Live(i) /\ Live(j)
        /\ ticks[i] = 1
        /\ queueItems[i].NumTries = 2 /\ sink[i].done = 2
        /\ queueItems[j].NumTries = 1

\* C35: at any time at most one temporary message (PendingSelection) is stored
\* under one key (chat id, message id).
C35_OnePerKey ==
    \A k, j \in Pending(temporaryMessages) :
        (/\ temporaryMessages[k].ChatID = temporaryMessages[j].ChatID
         /\ temporaryMessages[k].MessageID = temporaryMessages[j].MessageID)
            => k = j

\* C36: the reminder a selection makes has the message and the time of the
\* candidate whose button was pressed: for the list made from TwoTexts, the
\* candidate whose formatted time is the button's datetime.
C36_ChosenMessage ==
    [][\A b \in keyboards :
          (/\ b.cmd = "/load"
           /\ HandleCallbackQuery(b)
           /\ Len(queueItems') = Len(queueItems) + 1)
          => \E c \in Range(Generate(conf, TwoTexts)) :
                /\ datetimeToStr(c.When) = b.param
                /\ queueItems'[Len(queueItems')].Message = c.Message
                /\ queueItems'[Len(queueItems')].FireOn
                      = ParseInLocation(datetimeToStr(c.When))
      ]_vars

\* C37: an update (message or callback query) from a sender whose username is
\* not in allowed_telegram_users, a sender with no username included, leaves
\* the reminders and the temporary messages as they were.
C37_AccessControl ==
    [][\A from \in Senders :
          (/\ from = Nil \/ from[1] \notin conf.AllowedTelegramUsers
           /\ MessageFrom(from) \/ CallbackFrom(from))
          => UNCHANGED <<queueItems, temporaryMessages>>
      ]_vars

\* C38: a reminder whose deliveredOn is set has been sent with success at least
\* once before; and when it is still stored and the goroutine that marked it
\* has run to its end (none is left before its IncreaseNumTries), its numTries
\* is at least 1.
C38_NoDeliveryWithoutSend ==
    \A i \in ItemIDs :
        queueItems[i].DeliveredOn # Nil
            => /\ sink[i].oks >= 1
               /\ sink[i].marked
               /\ (Live(i) /\ AtPc(i, "incr") = 0) => queueItems[i].NumTries >= 1

\* a reminder marked delivered after one failed and one successful send, all
\* its goroutines done
C38_Witness ==
    \E i \in ItemIDs :
        /\ Live(i) /\ queueItems[i].DeliveredOn # Nil
        /\ sink[i].sends = 2 /\ sink[i].oks = 1
        /\ InFlight(i) = 0
        /\ queueItems[i].NumTries = 2

\* C39: a reminder DeleteQueueItem has deleted stays deleted; from then on no
\* DeliverableQueueItems scan and no UndeliveredQueueItems list returns it,
\* GetQueueItem does not find it, and no dispatch tick starts a goroutine for
\* it (goroutines started before may still run).
C39_CancelledNotPickedUp ==
    [][\A i \in ItemIDs :
          ~Live(i)
          => /\ queueItems'[i].DeletedAt # Nil
             /\ \A queue \in DeliverableQueueItems(queueItems, conf.MaxNumTries) :
                   i \notin Range(queue)
             /\ \A c \in Chats :
                   /\ GetQueueItem(queueItems, c, queueItems[i].ID) = {}
                   /\ \A reminders \in UndeliveredQueueItems(queueItems, c) :
                         i \notin Range(reminders)
             /\ Tick => CopiesIn(Task("send", queueItems[i]), tasks')
                            <= CopiesIn(Task("send", queueItems[i]), tasks)
      ]_vars

\* a cancelled reminder that is due, was tried once without success and has
\* tries left, with no goroutine running: a tick would pick it up again if it
\* were still stored
C39_Witness ==
    \E i \in ItemIDs :
        /\ ~Live(i)
        /\ queueItems[i].DeliveredOn = Nil
        /\ queueItems[i].FireOn < now
        /\ queueItems[i].NumTries = 1
        /\ queueItems[i].NumTries < conf.MaxNumTries
        /\ sink[i].sends = 1 /\ sink[i].done = 1
        /\ tasks = EmptyBag

\* C40: with default_hour 0, a message whose only raw item is a future 00:00
\* resolves to that one candidate, not generated, and is enqueued at once for
\* that midnight: no temporary message is saved and no button is shown.
C40_MidnightDefaultHourZero ==
    [][\A c \in Chats, m \in MessageIDs, sent \in BOOLEAN :
          (conf.DefaultHour = 0 /\ HandleMessage(c, m, Midnight, FALSE, sent))
          => /\ filterParsed(conf, Midnight) = Midnight
             /\ Len(queueItems') = Len(queueItems) + 1
             /\ queueItems'[Len(queueItems')].Message = Midnight[1].Message
             /\ queueItems'[Len(queueItems')].FireOn = At(1, 0, 0)
             /\ queueItems'[Len(queueItems')].ChatID = c
             /\ temporaryMessages' = temporaryMessages
             /\ keyboards' = keyboards
      ]_vars

\* with default_hour 0 the reminder for midnight is stored and nothing waits
\* for a selection
C40_Witness ==
    /\ conf.DefaultHour = 0
    /\ Len(queueItems) = 1
    /\ queueItems[1].FireOn = At(1, 0, 0)
    /\ HourOf(queueItems[1].FireOn) = 0 /\ MinuteOf(queueItems[1].FireOn) = 0
    /\ temporaryMessages = << >>
    /\ keyboards = {}

=============================================================================
